---------------------------- MODULE Spec2Model ----------------------------
(***************************************************************************)
(* A model of the fitness tracker's derived-metrics pipeline              *)
(* (fitness_app/views.py): workout-session creation, the per-day          *)
(* PerformanceMetrics row, the per-user UserSummaryIndex and user          *)
(* registration.                                                          *)
(*                                                                         *)
(* Python floats are modelled as exact rationals <<n, d>> (d > 0, lowest   *)
(* terms): rounding error of IEEE doubles is not modelled.  Dates are day  *)
(* numbers.  Text is a sequence of one-character strings so that lower()   *)
(* and the substring test `in` are computed, not assumed.                  *)
(***************************************************************************)
EXTENDS Integers, Sequences, FiniteSets, TLC

VARIABLES
    today,      \* timezone.now().date(), a day number
    sessions,   \* table WorkoutSession, in insertion (id) order
    metrics,    \* table PerformanceMetrics, in insertion (id) order
    summaries,  \* table UserSummaryIndex: user -> row, or NoRow
    resp,       \* the last request served and its response
    reqs,       \* in-flight requests of the interleaved specification
    accounts,   \* registration: the User / UserProfile / UserSummaryIndex / Token rows
    regResp,    \* registration: outcome of the last register_user call
    period,     \* Ranking Engine: the current ranking period
    scores,     \* Ranking Engine: the period's scores, in insertion order
    rankings,   \* table UserRanking of the Ranking Engine (per user, type, period)
    history,    \* table RankingHistory
    userRanking,  \* table UserRanking of models.py (one row per user), or NoRow
    achievements, \* table Achievement
    calc,       \* the last evaluation of a pure metric function or read-only view
    userStats,  \* User.total_workouts and User.total_calories_burned, per user
    retry       \* the state of a call of a db_retry wrapper

\* the variables of the derived-metrics pipeline and of registration
baseVars == <<today, sessions, metrics, summaries, resp, reqs, accounts, regResp>>

\* the variables of the Ranking Engine
rankVars == <<period, scores, rankings, history>>

\* the variables of badges and achievements
awardVars == <<userRanking, achievements>>

vars == <<today, sessions, metrics, summaries, resp, reqs, accounts, regResp,
          period, scores, rankings, history, userRanking, achievements, calc, userStats, retry>>

-----------------------------------------------------------------------------
(* Bounds of the model                                                     *)

MaxSessions == 3
MaxDay == 32

-----------------------------------------------------------------------------
(* Exact rationals                                                         *)

Abs(x) == IF x < 0 THEN -x ELSE x

RECURSIVE GCD(_, _)
GCD(a, b) == IF b = 0 THEN a ELSE GCD(b, a % b)

Rat(n, d) ==
    LET g == GCD(Abs(n), d)
    IN  <<n \div g, d \div g>>

RInt(n) == <<n, 1>>
RAdd(a, b) == Rat(a[1] * b[2] + b[1] * a[2], a[2] * b[2])
RMul(a, b) == Rat(a[1] * b[1], a[2] * b[2])
RLe(a, b) == a[1] * b[2] <= b[1] * a[2]
RMin(a, b) == IF RLe(a, b) THEN a ELSE b

-----------------------------------------------------------------------------
(* Text: str.lower() and the substring test                                *)

UpperCase == <<"A","B","C","D","E","F","G","H","I","J","K","L","M",
               "N","O","P","Q","R","S","T","U","V","W","X","Y","Z">>
LowerCase == <<"a","b","c","d","e","f","g","h","i","j","k","l","m",
               "n","o","p","q","r","s","t","u","v","w","x","y","z">>

LowerChar(c) ==
    IF \E i \in 1..Len(UpperCase) : UpperCase[i] = c
    THEN LowerCase[CHOOSE i \in 1..Len(UpperCase) : UpperCase[i] = c]
    ELSE c

lower(s) == [i \in 1..Len(s) |-> LowerChar(s[i])]

\* Python's `sub in s` for strings
Contains(sub, s) ==
    \E k \in 0..(Len(s) - Len(sub)) :
        \A i \in 1..Len(sub) : s[k + i] = sub[i]

kw_cardio == <<"c","a","r","d","i","o">>
kw_strength == <<"s","t","r","e","n","g","t","h">>
kw_yoga == <<"y","o","g","a">>

-----------------------------------------------------------------------------
(* Fixtures: users and the ExerciseType table                              *)

Users == {"u1", "u2"}

\* ExerciseType rows (id -> name); 'Running' is the type the tests create.
ExerciseTypes ==
    <<  <<"R","u","n","n","i","n","g">>,
        <<"C","a","r","d","i","o">>,
        <<"S","t","r","e","n","g","t","h"," ","T","r","a","i","n","i","n","g">>,
        <<"Y","o","g","a">>,
        <<"C","a","r","d","i","o"," ","Y","o","g","a">>  >>

ET_Running == 1
ET_Cardio == 2
ET_Strength == 3
ET_Yoga == 4
ET_CardioYoga == 5

Intensities == {"Low", "Medium", "High"}

NoRow == [none |-> TRUE]

\* Python's None / SQL NULL in a numeric field, encoded as a number no such
\* field holds (calories_burned = PositiveIntegerField(null=True, blank=True))
None == -1

\* the empty User / UserProfile / Token tables
NoAccounts == [users |-> {}, profiles |-> {}, tokens |-> {}]

\* a request body with no fields
EmptyBody == [f \in {} |-> 0]

-----------------------------------------------------------------------------
(* Program constants                                                       *)

ScoreCap == 100        \* min(100, ...)
FrequencyDays == 7     \* today - timedelta(days=7)
RecentDays == 30       \* timedelta(days=30)
WeekDays == 7          \* last_week_start / prev_week_start
RecentWeeks == 4       \* weekly_calories / 4, weeks_with_workouts / 4
MinDuration == 1
MaxDuration == 480
MinCalories == 1
MaxCalories == 2000

-----------------------------------------------------------------------------
(* Aggregates over a table (a sequence of rows)                            *)

Rows(tbl, u) == {i \in 1..Len(tbl) : tbl[i].user = u}

RECURSIVE SumOver(_, _, _)
SumOver(tbl, idx, f) ==
    IF idx = {} THEN 0
    ELSE LET i == CHOOSE j \in idx : TRUE
         IN  (IF tbl[i][f] = None THEN 0 ELSE tbl[i][f])   \* SUM skips NULL
               + SumOver(tbl, idx \ {i}, f)

-----------------------------------------------------------------------------
(* PerformanceMetrics: the model class                                     *)

\* 0.30*cardio + 0.25*strength + 0.20*flexibility + 0.25*endurance
FitnessIndex(c, s, f, e) ==
    RAdd(RAdd(RMul(Rat(30, 100), c), RMul(Rat(25, 100), s)),
         RAdd(RMul(Rat(20, 100), f), RMul(Rat(25, 100), e)))

\* A new row's field defaults.
DefaultMetrics(u, d) ==
    [ user |-> u, date |-> d,
      cardiovascular_score |-> RInt(0), strength_score |-> RInt(0),
      flexibility_score |-> RInt(0), endurance_score |-> RInt(0),
      overall_fitness_index |-> RInt(0),
      total_calories_burned |-> 0, total_workout_time |-> 0,
      workout_frequency |-> 0, calorie_efficiency |-> RInt(0) ]

\* PerformanceMetrics.save(): the index is recomputed right before the row
\* is persisted.
PerformanceMetrics_save(row) ==
    [row EXCEPT !.overall_fitness_index =
        FitnessIndex(row.cardiovascular_score, row.strength_score,
                     row.flexibility_score, row.endurance_score)]

UniqueViolationOff(tbl, u, d) == FALSE
\* unique_together = ['user', 'date']: would inserting (u, d) be refused?
UniqueViolation(tbl, u, d) ==
    \E i \in 1..Len(tbl) : tbl[i].user = u /\ tbl[i].date = d

\* objects.get(user=u, date=d): the matching row ids
MetricsLookup(tbl, u, d) ==
    {i \in Rows(tbl, u) : tbl[i].date = d}

\* metrics.save() / serializer.save(): write every field of the in-memory
\* instance to the row with its id.
save_metricsRaw(tbl, idx, row) == [tbl EXCEPT ![idx] = row]
save_metrics(tbl, idx, row) == [tbl EXCEPT ![idx] = PerformanceMetrics_save(row)]

\* Model(**params) with the given field values over the defaults
WithFields(row, body, allowed) ==
    [f \in DOMAIN row |->
        IF f \in DOMAIN body /\ f \in allowed THEN body[f] ELSE row[f]]

\* objects.get_or_create(user=u, date=d, defaults=body), run without
\* interleaving: <<table, row id, created>>
get_or_create(tbl, u, d, body) ==
    LET found == MetricsLookup(tbl, u, d)
    IN  IF found # {}
        THEN [tbl |-> tbl, idx |-> CHOOSE i \in found : TRUE, created |-> FALSE]
        ELSE [tbl |-> Append(tbl, PerformanceMetrics_save(
                          WithFields(DefaultMetrics(u, d), body, DOMAIN body))),
              idx |-> Len(tbl) + 1, created |-> TRUE]

-----------------------------------------------------------------------------
(* update_user_performance_metrics                                         *)

intensity_multiplierFlat(i) == RInt(1)
intensity_multiplier(i) ==
    CASE i = "Low" -> Rat(1, 2)
      [] i = "Medium" -> RInt(1)
      [] i = "High" -> Rat(3, 2)
      [] OTHER -> RInt(1)

bumpUncapped(score, inc) == RAdd(score, inc)
\* min(100, score + inc)
bump(score, inc) == RMin(RInt(ScoreCap), RAdd(score, inc))

\* calorie_efficiency after the totals were updated
efficiencyStale(row) == row.calorie_efficiency
efficiency(row) ==
    IF row.total_workout_time > 0
    THEN Rat(row.total_calories_burned, row.total_workout_time)
    ELSE row.calorie_efficiency

\* WorkoutSession.objects.filter(user=user, date__gte=today - 7 days).count()
recent_sessions_count(stbl, u, day) ==
    Cardinality({i \in Rows(stbl, u) : stbl[i].date >= day - FrequencyDays})

component_scoresAll(row, name, m) ==
    [row EXCEPT
       !.cardiovascular_score = bump(@, RMul(RInt(2), m)),
       !.endurance_score = bump(@, RMul(Rat(3, 2), m)),
       !.strength_score = bump(@, RMul(RInt(2), m)),
       !.flexibility_score = bump(@, RMul(RInt(2), m))]
\* the keyword chain on exercise_type.name.lower()
component_scores(row, name, m) ==
    IF Contains(kw_cardio, lower(name))
    THEN [row EXCEPT
            !.cardiovascular_score = bump(@, RMul(RInt(2), m)),
            !.endurance_score = bump(@, RMul(Rat(3, 2), m))]
    ELSE IF Contains(kw_strength, lower(name))
    THEN [row EXCEPT !.strength_score = bump(@, RMul(RInt(2), m))]
    ELSE IF Contains(kw_yoga, lower(name))
    THEN [row EXCEPT !.flexibility_score = bump(@, RMul(RInt(2), m))]
    ELSE row

\* lines 421-450: the changes made to the in-memory instance `metrics`
apply_workout(row, stbl, u, day, ws) ==
    LET r1 == [row EXCEPT
                 !.total_calories_burned = @ + ws.calories_burned,
                 !.total_workout_time = @ + ws.duration_minutes]
        r2 == [r1 EXCEPT !.calorie_efficiency = efficiency(r1)]
        r3 == [r2 EXCEPT !.workout_frequency = recent_sessions_count(stbl, u, day)]
    IN  component_scores(r3, ExerciseTypes[ws.exercise_type],
                         intensity_multiplier(ws.intensity))

update_user_performance_metricsSkipped(tbl, stbl, u, day, ws) == tbl
\* the whole helper, run without interleaving: the new PerformanceMetrics table
update_user_performance_metrics(tbl, stbl, u, day, ws) ==
    LET goc == get_or_create(tbl, u, day, EmptyBody)
    IN  save_metrics(goc.tbl, goc.idx,
                     apply_workout(goc.tbl[goc.idx], stbl, u, day, ws))

-----------------------------------------------------------------------------
(* update_user_summary_index                                               *)

DefaultSummary ==
    [ performance_index |-> RInt(0), efficiency_score |-> RInt(0),
      consistency_rating |-> RInt(0), improvement_trend |-> RInt(0),
      total_sessions |-> 0, average_session_duration |-> RInt(0),
      total_calories |-> 0, weekly_average_calories |-> RInt(0) ]

\* PerformanceMetrics.objects.filter(user=u).order_by('-date').first()
latest_metrics(mtbl, u) ==
    LET mine == Rows(mtbl, u)
    IN  IF mine = {} THEN NoRow
        ELSE mtbl[CHOOSE i \in mine : \A j \in mine : mtbl[j].date <= mtbl[i].date]

\* .dates('date', 'week'): the distinct weeks (day 0 is a Monday)
weeks_of(stbl, idx) == {stbl[i].date \div 7 : i \in idx}

\* if prev_week_calories > 0: improvement_trend = ...   (no else branch)
trend(old, last, prev) ==
    IF prev > 0 THEN Rat((last - prev) * 100, prev) ELSE old

update_user_summary_index(summary, stbl, mtbl, u, day) ==
    LET all_sessions == Rows(stbl, u)
        recent == {i \in all_sessions : stbl[i].date >= day - RecentDays}
        n == Cardinality(all_sessions)
        s1 == [summary EXCEPT
                 !.total_sessions = n,
                 !.total_calories = SumOver(stbl, all_sessions, "calories_burned")]
        s2 == IF n > 0
              THEN [s1 EXCEPT !.average_session_duration =
                        Rat(SumOver(stbl, all_sessions, "duration_minutes"), n)]
              ELSE s1
        s3 == IF recent # {}
              THEN [s2 EXCEPT !.weekly_average_calories =
                        Rat(SumOver(stbl, recent, "calories_burned"), RecentWeeks)]
              ELSE s2
        latest == latest_metrics(mtbl, u)
        last_week_start == day - WeekDays
        prev_week_start == last_week_start - WeekDays
        last_week_calories ==
            SumOver(stbl, {i \in all_sessions : stbl[i].date >= last_week_start},
                    "calories_burned")
        prev_week_calories ==
            SumOver(stbl, {i \in all_sessions : /\ stbl[i].date >= prev_week_start
                                                /\ stbl[i].date < last_week_start},
                    "calories_burned")
    IN  IF latest = NoRow THEN s3
        ELSE [s3 EXCEPT
                !.performance_index = latest.overall_fitness_index,
                !.efficiency_score = latest.calorie_efficiency,
                !.consistency_rating =
                    RMin(RInt(100), Rat(Cardinality(weeks_of(stbl, recent)) * 100,
                                        RecentWeeks)),
                !.improvement_trend =
                    trend(@, last_week_calories, prev_week_calories)]

-----------------------------------------------------------------------------
(* Request handlers, each run without interleaving                         *)

\* What the model keeps of a served request: the view, the requesting user,
\* the status code, and whether the view took its create / recalculate branch.
Response(op, u, status, did) == [op |-> op, user |-> u, status |-> status, did |-> did]

session_validNoUpper(et, dur, cal) ==
    /\ et \in 1..Len(ExerciseTypes)
    /\ dur >= MinDuration
    /\ cal = None \/ cal >= MinCalories
\* WorkoutValidationMixin and the exercise_type foreign key; a field the
\* request leaves out is not validated, and calories_burned is not required
session_valid(et, dur, cal) ==
    /\ et \in 1..Len(ExerciseTypes)
    /\ dur >= MinDuration /\ dur <= MaxDuration
    /\ cal = None \/ (cal >= MinCalories /\ cal <= MaxCalories)

\* metrics.total_calories_burned += workout_session.calories_burned raises
\* TypeError when the session has no calories_burned
helper_raises(ws) == ws.calories_burned = None

\* User.update_workout_stats: count and sum over self.workout_sessions.all();
\* sum() raises TypeError on a session without calories_burned, and then
\* nothing is saved
update_workout_stats(stats, stbl, u) ==
    IF \E i \in Rows(stbl, u) : stbl[i].calories_burned = None THEN stats
    ELSE [stats EXCEPT ![u] =
            [total_workouts |-> Cardinality(Rows(stbl, u)),
             total_calories_burned |-> SumOver(stbl, Rows(stbl, u), "calories_burned")]]

\* WorkoutSession.save().  models.py defines class WorkoutSession twice; the
\* module name, the app registry and User.workout_sessions are bound to the
\* second definition, which has no save() of its own: Model.save() writes the
\* row and calls nothing.  (The save() of the first definition, which calls
\* user.update_workout_stats(), belongs to a class nothing refers to.)
WorkoutSession_save(stats, stbl, ws) == stats

\* POST workout_sessions
WorkoutPost(u, et, dur, cal, inten, d) ==
    /\ Len(sessions) < MaxSessions
    /\ IF session_valid(et, dur, cal)
       THEN LET ws == [user |-> u, exercise_type |-> et, duration_minutes |-> dur,
                       calories_burned |-> cal, intensity |-> inten, date |-> d]
                stbl == Append(sessions, ws)
            IN  /\ sessions' = stbl
                /\ userStats' = WorkoutSession_save(userStats, stbl, ws)
                /\ IF helper_raises(ws)
                   THEN \* the session and the row get_or_create made stay
                        /\ metrics' = get_or_create(metrics, u, today, EmptyBody).tbl
                        /\ resp' = Response("workout", u, 500, FALSE)
                   ELSE /\ metrics' = update_user_performance_metrics(
                                          metrics, stbl, u, today, ws)
                        /\ resp' = Response("workout", u, 201, FALSE)
       ELSE /\ resp' = Response("workout", u, 400, FALSE)
            /\ UNCHANGED <<sessions, metrics, userStats>>
    /\ UNCHANGED <<today, summaries, reqs, accounts, regResp, rankVars, awardVars, calc, retry>>

\* PerformanceMetricsSerializer: every field but the read-only ones
WritableMetrics ==
    { "cardiovascular_score", "strength_score", "flexibility_score",
      "endurance_score", "total_calories_burned", "total_workout_time",
      "workout_frequency", "calorie_efficiency" }

\* POST performance_metrics
MetricsPost(u, body) ==
    LET goc == get_or_create(metrics, u, today, body)
    IN  /\ IF goc.created
           THEN /\ metrics' = goc.tbl
                /\ resp' = Response("metrics", u, 201, TRUE)
           ELSE /\ metrics' = save_metrics(goc.tbl, goc.idx,
                                  WithFields(goc.tbl[goc.idx], body, WritableMetrics))
                /\ resp' = Response("metrics", u, 200, FALSE)
        /\ UNCHANGED <<today, sessions, summaries, reqs, accounts, regResp, rankVars, awardVars, calc, userStats, retry>>

SummaryGetAlways(u, refresh) ==
    LET summary == IF summaries[u] = NoRow THEN DefaultSummary ELSE summaries[u]
    IN  /\ summaries' = [summaries EXCEPT ![u] =
               update_user_summary_index(summary, sessions, metrics, u, today)]
        /\ resp' = Response("summary", u, 200, summaries[u] = NoRow \/ refresh)
        /\ UNCHANGED <<today, sessions, metrics, reqs, accounts, regResp, rankVars, awardVars, calc, userStats, retry>>
\* GET user_summary_index
SummaryGet(u, refresh) ==
    LET created == summaries[u] = NoRow
        summary == IF created THEN DefaultSummary ELSE summaries[u]
    IN  /\ summaries' = [summaries EXCEPT ![u] =
               IF created \/ refresh
               THEN update_user_summary_index(summary, sessions, metrics, u, today)
               ELSE summary]
        /\ resp' = Response("summary", u, 200, created \/ refresh)
        /\ UNCHANGED <<today, sessions, metrics, reqs, accounts, regResp, rankVars, awardVars, calc, userStats, retry>>

\* the calendar moves on
Tick(d) ==
    /\ today + d <= MaxDay
    /\ today' = today + d
    /\ UNCHANGED <<sessions, metrics, summaries, resp, reqs, accounts, regResp,
                   rankVars, awardVars, calc, userStats, retry>>

-----------------------------------------------------------------------------
(* Specifications                                                          *)

\* no db_retry wrapper has been called
NoException == <<"None", -1>>
NotCalled ==
    [ pc |-> "idle", max_retries |-> 0, attempt |-> 0, calls |-> 0, sleeps |-> 0,
      current_delay |-> RInt(0), last_exception |-> NoException,
      connected |-> FALSE, result |-> NoException ]

\* the tables of the Ranking Engine and of the awards are empty, no metric
\* function has been evaluated, the users' totals are at their defaults
InitRest ==
    /\ period = 1
    /\ scores = <<>>
    /\ rankings = <<>>
    /\ history = <<>>
    /\ userRanking = [u \in Users |-> NoRow]
    /\ achievements = <<>>
    /\ calc = [fn |-> "none"]
    /\ userStats = [u \in Users |-> [total_workouts |-> 0, total_calories_burned |-> 0]]
    /\ retry = NotCalled

Init ==
    /\ today = 0
    /\ sessions = <<>>
    /\ metrics = <<>>
    /\ summaries = [u \in Users |-> NoRow]
    /\ resp = Response("none", "", 0, FALSE)
    /\ reqs = <<>>
    /\ accounts = NoAccounts
    /\ regResp = [user |-> "", failAt |-> 0, status |-> 0]
    /\ InitRest

\* request bodies of POST performance_metrics
Bodies ==
    { [cardiovascular_score |-> RInt(99), overall_fitness_index |-> RInt(5)],
      [endurance_score |-> RInt(98), calorie_efficiency |-> RInt(7)],
      [strength_score |-> RInt(100)] }

\* One day, one user: the component scores and the index.
Next ==
    \/ \E et \in 1..Len(ExerciseTypes), inten \in {"Medium", "High"} :
          WorkoutPost("u1", et, 30, 250, inten, today)
    \/ \E body \in Bodies : MetricsPost("u1", body)

Spec == Init /\ [][Next]_vars

\* the step of the calendar: one day more than a week
TickDays == 1 + 7

\* Several days, two users: the summary and the time windows.
NextTime ==
    \/ \E cal \in {100, 150}, off \in {0, 1} :
          WorkoutPost("u1", ET_Cardio, 30, cal, "Medium", today + off)
    \/ WorkoutPost("u2", ET_Cardio, 30, 100, "Medium", today)
    \/ \E refresh \in BOOLEAN : SummaryGet("u1", refresh)
    \/ Tick(TickDays)

SpecTime == Init /\ [][NextTime]_vars

\* Absent input: sessions without calories_burned, users without sessions
\* or without a PerformanceMetrics row.
NextAbsent ==
    \/ \E et \in {ET_Running, ET_Cardio}, cal \in {None, 250} :
          WorkoutPost("u1", et, 30, cal, "Medium", today)
    \/ \E u \in Users, refresh \in BOOLEAN : SummaryGet(u, refresh)

SpecAbsent == Init /\ [][NextAbsent]_vars

\* durations and calories at and beyond the limits of WorkoutValidationMixin
DurationValues == {MinDuration - 1, MinDuration, MaxDuration, MaxDuration + 1}
CaloriesValues == {MinCalories - 1, MinCalories, MaxCalories, MaxCalories + 1}

\* The input boundary: two users post sessions in and out of range.
NextValid ==
    \E u \in Users, dur \in DurationValues, cal \in CaloriesValues,
       inten \in {"Low", "High"} :
        WorkoutPost(u, ET_Cardio, dur, cal, inten, today)

SpecValid == Init /\ [][NextValid]_vars

\* the admin action update_user_stats on one user
AdminUpdateStats(u) ==
    /\ userStats' = update_workout_stats(userStats, sessions, u)
    /\ resp' = Response("update_user_stats", u,
                        IF \E i \in Rows(sessions, u) : sessions[i].calories_burned = None
                        THEN 500 ELSE 200, FALSE)
    /\ UNCHANGED <<today, sessions, metrics, summaries, reqs, accounts, regResp,
                   rankVars, awardVars, calc, retry>>

\* Two users save sessions; the admin recomputes a user's totals.
NextStats ==
    \/ \E u \in Users, cal \in {None, 100, 250} :
          WorkoutPost(u, ET_Cardio, 30, cal, "Medium", today)
    \/ \E u \in Users : AdminUpdateStats(u)

SpecStats == Init /\ [][NextStats]_vars

\* a POST of performance_metrics that puts two scores next to the cap
NearCap == [cardiovascular_score |-> RInt(99), flexibility_score |-> RInt(99)]

\* One day, one user: every exercise type at every intensity, 'Moderate'
\* being none of Low / Medium / High.
NextScores ==
    \/ \E et \in 1..Len(ExerciseTypes), inten \in Intensities \cup {"Moderate"} :
          WorkoutPost("u1", et, 30, 250, inten, today)
    \/ MetricsPost("u1", NearCap)

SpecScores == Init /\ [][NextScores]_vars

-----------------------------------------------------------------------------
(* The same two POST handlers, one database statement per step, so that    *)
(* requests served by different workers interleave.  Each request keeps    *)
(* its own in-memory model instance (`local`); nothing in the views takes  *)
(* a lock or opens a transaction around the helper.                        *)

NReq == 2

Idle == [pc |-> "idle"]

Request(kind, u, day, ws, body) ==
    [ pc |-> "get", kind |-> kind, user |-> u, day |-> day, ws |-> ws, body |-> body,
      idx |-> 0, local |-> NoRow, raced |-> FALSE, status |-> 0 ]

\* POST workout_sessions: serializer.save(user=request.user), then the helper
\* reads today's date
BeginWorkout(r, u, et, dur, cal, inten) ==
    /\ reqs[r].pc = "idle"
    /\ Len(sessions) < MaxSessions
    /\ session_valid(et, dur, cal)
    /\ LET ws == [user |-> u, exercise_type |-> et, duration_minutes |-> dur,
                  calories_burned |-> cal, intensity |-> inten, date |-> today]
       IN  /\ sessions' = Append(sessions, ws)
           /\ reqs' = [reqs EXCEPT ![r] = Request("workout", u, today, ws, EmptyBody)]
    /\ UNCHANGED <<today, metrics, summaries, resp, accounts, regResp, rankVars, awardVars, calc, userStats, retry>>

\* POST performance_metrics: reads today's date
BeginMetrics(r, u, body) ==
    /\ reqs[r].pc = "idle"
    /\ reqs' = [reqs EXCEPT ![r] = Request("metrics", u, today, NoRow, body)]
    /\ UNCHANGED <<today, sessions, metrics, summaries, resp, accounts, regResp, rankVars, awardVars, calc, userStats, retry>>

\* where a request goes once get_or_create has returned its row
AfterGoc(q, created) ==
    IF q.kind = "workout" THEN [q EXCEPT !.pc = "modify"]
    ELSE IF created THEN [q EXCEPT !.pc = "done", !.status = 201]
    ELSE [q EXCEPT !.pc = "update"]

\* get_or_create, first statement: SELECT
GocGet(r) ==
    /\ reqs[r].pc = "get"
    /\ LET q == reqs[r]
           found == MetricsLookup(metrics, q.user, q.day)
       IN  reqs' = [reqs EXCEPT ![r] =
               IF found = {} THEN [q EXCEPT !.pc = "create"]
               ELSE LET i == CHOOSE j \in found : TRUE
                    IN  AfterGoc([q EXCEPT !.idx = i, !.local = metrics[i]], FALSE)]
    /\ UNCHANGED <<today, sessions, metrics, summaries, resp, accounts, regResp, rankVars, awardVars, calc, userStats, retry>>

\* get_or_create, second statement: INSERT, refused when the unique
\* constraint on (user, date) is violated
GocCreate(r) ==
    /\ reqs[r].pc = "create"
    /\ LET q == reqs[r]
           row == PerformanceMetrics_save(
                      WithFields(DefaultMetrics(q.user, q.day), q.body, DOMAIN q.body))
       IN  IF UniqueViolation(metrics, q.user, q.day)
           THEN /\ reqs' = [reqs EXCEPT ![r] = [q EXCEPT !.pc = "reget", !.raced = TRUE]]
                /\ UNCHANGED metrics
           ELSE /\ metrics' = Append(metrics, row)
                /\ reqs' = [reqs EXCEPT ![r] =
                       AfterGoc([q EXCEPT !.idx = Len(metrics) + 1, !.local = row], TRUE)]
    /\ UNCHANGED <<today, sessions, summaries, resp, accounts, regResp, rankVars, awardVars, calc, userStats, retry>>

\* get_or_create, after an IntegrityError: SELECT again
GocReget(r) ==
    /\ reqs[r].pc = "reget"
    /\ LET q == reqs[r]
           i == CHOOSE j \in MetricsLookup(metrics, q.user, q.day) : TRUE
       IN  reqs' = [reqs EXCEPT ![r] =
               AfterGoc([q EXCEPT !.idx = i, !.local = metrics[i]], FALSE)]
    /\ UNCHANGED <<today, sessions, metrics, summaries, resp, accounts, regResp, rankVars, awardVars, calc, userStats, retry>>

\* the helper's lines 421-450 on the in-memory instance, with the COUNT query
Modify(r) ==
    /\ reqs[r].pc = "modify"
    /\ LET q == reqs[r]
       IN  reqs' = [reqs EXCEPT ![r] =
               [q EXCEPT !.pc = "save",
                         !.local = apply_workout(q.local, sessions, q.user, q.day, q.ws)]]
    /\ UNCHANGED <<today, sessions, metrics, summaries, resp, accounts, regResp, rankVars, awardVars, calc, userStats, retry>>

\* metrics.save(): UPDATE of every column from the in-memory instance
SaveLocal(r) ==
    /\ reqs[r].pc = "save"
    /\ LET q == reqs[r]
       IN  /\ metrics' = save_metrics(metrics, q.idx, q.local)
           /\ reqs' = [reqs EXCEPT ![r] = [q EXCEPT !.pc = "done", !.status = 201]]
    /\ UNCHANGED <<today, sessions, summaries, resp, accounts, regResp, rankVars, awardVars, calc, userStats, retry>>

\* serializer.save() of the POST's update branch
UpdateLocal(r) ==
    /\ reqs[r].pc = "update"
    /\ LET q == reqs[r]
       IN  /\ metrics' = save_metrics(metrics, q.idx,
                             WithFields(q.local, q.body, WritableMetrics))
           /\ reqs' = [reqs EXCEPT ![r] = [q EXCEPT !.pc = "done", !.status = 200]]
    /\ UNCHANGED <<today, sessions, summaries, resp, accounts, regResp, rankVars, awardVars, calc, userStats, retry>>

InitConc ==
    /\ today = 0
    /\ sessions = <<>>
    /\ metrics = <<>>
    /\ summaries = [u \in Users |-> NoRow]
    /\ resp = Response("none", "", 0, FALSE)
    /\ reqs = [r \in 1..NReq |-> Idle]
    /\ accounts = NoAccounts
    /\ regResp = [user |-> "", failAt |-> 0, status |-> 0]
    /\ InitRest

NextConc ==
    \/ \E r \in 1..NReq, u \in Users :
          BeginWorkout(r, u, ET_Cardio, 30, 250, "High")
    \/ \E r \in 1..NReq, u \in Users :
          BeginMetrics(r, u, [cardiovascular_score |-> RInt(99)])
    \/ \E r \in 1..NReq :
          GocGet(r) \/ GocCreate(r) \/ GocReget(r) \/ Modify(r) \/ SaveLocal(r)
            \/ UpdateLocal(r)
    \/ (today = 0 /\ Tick(1))

SpecConc == InitConc /\ [][NextConc]_vars

-----------------------------------------------------------------------------
(* register_user                                                           *)

\* the rows register_user writes: User, UserProfile, Token (by username) and
\* UserSummaryIndex
Database(acc, summ) == [accounts |-> acc, summaries |-> summ]

\* AUTH_PASSWORD_VALIDATORS, as far as length and digits go
Digits == {"0","1","2","3","4","5","6","7","8","9"}
validate_password(pw) ==
    /\ Len(pw) >= 8
    /\ \E i \in 1..Len(pw) : pw[i] \notin Digits

registration_validNoConfirm(acc, req) ==
    /\ \A x \in acc.users : x.username # req.username /\ x.email # req.email
    /\ validate_password(req.password)
\* UserRegistrationSerializer.is_valid(): unique username and email, the
\* password validators, validate()
registration_valid(acc, req) ==
    /\ \A x \in acc.users : x.username # req.username /\ x.email # req.email
    /\ validate_password(req.password)
    /\ req.password = req.password_confirm

\* the database after the first k of the four creations in the view
RegisterSteps(db, req, k) ==
    LET u == req.username
        d1 == [db EXCEPT !.accounts.users =
                  @ \cup {[username |-> u, email |-> req.email]}]
        d2 == [d1 EXCEPT !.accounts.profiles = @ \cup {u}]
        d3 == [d2 EXCEPT !.summaries[u] =
                  IF @ = NoRow THEN DefaultSummary ELSE @]
        d4 == [d3 EXCEPT !.accounts.tokens = @ \cup {u}]
    IN  CASE k = 0 -> db [] k = 1 -> d1 [] k = 2 -> d2 [] k = 3 -> d3 [] OTHER -> d4

\* `with transaction.atomic():` left by an exception: what the block wrote
\* is rolled back
atomicOff(before, partial) == partial
atomic(before, partial) == before

\* POST register; failAt = k > 0: the k-th creation raises (a database
\* error), failAt = 0: none does
Register(req, failAt) ==
    LET db == Database(accounts, summaries)
        out == IF ~registration_valid(accounts, req) THEN db
               ELSE IF failAt = 0 THEN RegisterSteps(db, req, 4)
               ELSE atomic(db, RegisterSteps(db, req, failAt - 1))
    IN  /\ accounts' = out.accounts
        /\ summaries' = out.summaries
        /\ regResp' = [ user |-> req.username, failAt |-> failAt,
                        status |-> IF ~registration_valid(accounts, req) THEN 400
                                   ELSE IF failAt = 0 THEN 201 ELSE 500 ]
        /\ UNCHANGED <<today, sessions, metrics, resp, reqs, rankVars, awardVars, calc, userStats, retry>>

PwTest == <<"t","e","s","t","p","a","s","s","1","2","3">>
PwOther == <<"t","e","s","t","p","a","s","s","4","5","6">>
PwShort == <<"a","b","c">>

InitReg ==
    /\ today = 0
    /\ sessions = <<>>
    /\ metrics = <<>>
    /\ summaries = [u \in Users |-> NoRow]
    /\ resp = Response("none", "", 0, FALSE)
    /\ reqs = <<>>
    /\ accounts = NoAccounts
    /\ regResp = [user |-> "", failAt |-> 0, status |-> 0]
    /\ InitRest

NextReg ==
    \E u \in Users, e \in {"a@example.com", "b@example.com", "c@example.com"},
       pw \in {PwTest, PwShort}, pwc \in {PwTest, PwOther, PwShort}, failAt \in 0..4 :
        Register([username |-> u, email |-> e, password |-> pw, password_confirm |-> pwc],
                 failAt)

SpecReg == InitReg /\ [][NextReg]_vars

-----------------------------------------------------------------------------
(* The Ranking Engine (spec 4.3): for a ranking type and a period, rank the *)
(* users that have a score in the period and record the rank movement      *)
(* against the preceding period.  Tables are sequences of rows in           *)
(* insertion order; `scores` holds the period's scores in insertion order.  *)

MaxScores == 4
MaxPeriod == 2

\* the users of the leaderboard, in the order in which they record scores
RankUsers == <<"u1", "u2", "u3", "u4">>
ScoreValues == {50, 70, 90}
RankingType == "overall"

RankingKey == {"user", "ranking_type", "period"}
HistoryKey == {"user", "ranking_type", "date"}

\* the rows of tbl that agree with row on the fields of key
Matching(tbl, row, key) ==
    {i \in 1..Len(tbl) : \A f \in key : tbl[i][f] = row[f]}

update_or_createInsert(tbl, row, key) == Append(tbl, row)
\* upsert under a unique-together key
update_or_create(tbl, row, key) ==
    IF Matching(tbl, row, key) = {} THEN Append(tbl, row)
    ELSE [tbl EXCEPT ![CHOOSE i \in Matching(tbl, row, key) : TRUE] = row]

sorted_descUnsorted(sc) == sc
\* step 2: stable sort, descending by score; ties keep insertion order
sorted_desc(sc) ==
    LET pos(i) == 1 + Cardinality({j \in 1..Len(sc) : sc[j].score > sc[i].score})
                    + Cardinality({j \in 1..(i - 1) : sc[j].score = sc[i].score})
    IN  [k \in 1..Len(sc) |-> sc[CHOOSE i \in 1..Len(sc) : pos(i) = k]]

percentileInverted(total, rank) == Rat(rank * 100, total)
\* step 4: (total_participants - rank) / total_participants * 100
percentile(total, rank) == Rat((total - rank) * 100, total)

\* steps 3-4: the UserRanking row of the k-th entry of the sorted scores
RankingRow(sorted, k, t, p) ==
    [ user |-> sorted[k].user, ranking_type |-> t, period |-> p,
      rank |-> k, score |-> sorted[k].score,
      percentile |-> percentile(Len(sorted), k),
      total_participants |-> Len(sorted) ]

RECURSIVE WriteRankings(_, _, _, _, _)
WriteRankings(tbl, sorted, k, t, p) ==
    IF k > Len(sorted) THEN tbl
    ELSE WriteRankings(update_or_create(tbl, RankingRow(sorted, k, t, p), RankingKey),
                       sorted, k + 1, t, p)

\* the user's ranking of the immediately preceding period of the same type
previous_ranking(tbl, u, t, p) ==
    {i \in 1..Len(tbl) : /\ tbl[i].user = u /\ tbl[i].ranking_type = t
                         /\ tbl[i].period = p - 1}

\* step 5: the RankingHistory row of a user ranked in both periods
HistoryRow(prev, cur, d) ==
    [ user |-> cur.user, ranking_type |-> cur.ranking_type, date |-> d,
      previous_rank |-> prev.rank, current_rank |-> cur.rank,
      rank_change |-> prev.rank - cur.rank,
      previous_score |-> prev.score, current_score |-> cur.score,
      score_change |-> cur.score - prev.score ]

RECURSIVE WriteHistory(_, _, _, _, _, _, _)
WriteHistory(htbl, rtbl, sorted, k, t, p, d) ==
    IF k > Len(sorted) THEN htbl
    ELSE LET prev == previous_ranking(rtbl, sorted[k].user, t, p)
             row == HistoryRow(rtbl[CHOOSE i \in prev : TRUE],
                               RankingRow(sorted, k, t, p), d)
         IN  WriteHistory(IF prev = {} THEN htbl
                          ELSE update_or_create(htbl, row, HistoryKey),
                          rtbl, sorted, k + 1, t, p, d)

get_rank_change_directionFlipped(h) ==
    IF h.rank_change > 0 THEN "down"
    ELSE IF h.rank_change < 0 THEN "up"
    ELSE "same"
\* RankingHistorySerializer.get_rank_change_direction
get_rank_change_direction(h) ==
    IF h.rank_change > 0 THEN "up"
    ELSE IF h.rank_change < 0 THEN "down"
    ELSE "same"

\* the period's ranking rows already show exactly the period's scores
already_ranked(rtbl, sc, t, p) ==
    {<<sc[i].user, sc[i].score>> : i \in 1..Len(sc)} =
    {<<rtbl[i].user, rtbl[i].score>> :
        i \in {j \in 1..Len(rtbl) : rtbl[j].ranking_type = t /\ rtbl[j].period = p}}

\* the score of user RankUsers[n] for the current period is recorded
Participate(n, s) ==
    /\ \A i \in 1..Len(scores) : \E m \in 1..(n - 1) : scores[i].user = RankUsers[m]
    /\ Len(scores) + Cardinality({i \in 1..Len(rankings) : rankings[i].period < period})
          < MaxScores
    /\ scores' = Append(scores, [user |-> RankUsers[n], score |-> s])
    /\ resp' = Response("score", RankUsers[n], 201, FALSE)
    /\ UNCHANGED <<today, sessions, metrics, summaries, reqs, accounts, regResp,
                   period, rankings, history, awardVars, calc, userStats, retry>>

\* leaderboard refresh: recompute the rankings of type t for the current period
RunEngine(t) ==
    /\ Len(scores) > 0
    /\ LET sorted == sorted_desc(scores)
       IN  /\ rankings' = WriteRankings(rankings, sorted, 1, t, period)
           /\ history' = WriteHistory(history, rankings, sorted, 1, t, period, today)
    /\ resp' = Response("rankings", t, 200, already_ranked(rankings, scores, t, period))
    /\ UNCHANGED <<today, sessions, metrics, summaries, reqs, accounts, regResp,
                   period, scores, awardVars, calc, userStats, retry>>

\* the next ranking period (a week) begins, with no scores yet
NextPeriod ==
    /\ period < MaxPeriod
    /\ period' = period + 1
    /\ today' = today + WeekDays
    /\ scores' = <<>>
    /\ UNCHANGED <<sessions, metrics, summaries, resp, reqs, accounts, regResp,
                   rankings, history, awardVars, calc, userStats, retry>>

\* order_by('rank'): ascending by rank, rows of equal rank in table order
order_by_rank(tbl, idx) ==
    LET pos(i) == 1 + Cardinality({j \in idx : tbl[j].rank < tbl[i].rank})
                    + Cardinality({j \in idx : tbl[j].rank = tbl[i].rank /\ j < i})
    IN  [k \in 1..Cardinality(idx) |-> tbl[CHOOSE i \in idx : pos(i) = k]]

latest_periodOldest(tbl, t) ==
    LET typed == {i \in 1..Len(tbl) : tbl[i].ranking_type = t}
    IN  tbl[CHOOSE i \in typed : \A j \in typed : tbl[j].period >= tbl[i].period]
\* filter(ranking_type=t).order_by('-period_end').first(), t having rankings
latest_period(tbl, t) ==
    LET typed == {i \in 1..Len(tbl) : tbl[i].ranking_type = t}
    IN  tbl[CHOOSE i \in typed : \A j \in typed : tbl[j].period <= tbl[i].period]

\* the response of leaderboard; slicing a queryset with a negative limit raises
leaderboard(tbl, t, limit) ==
    IF \A i \in 1..Len(tbl) : tbl[i].ranking_type # t
    THEN [status |-> 200, rankings |-> <<>>, period |-> None, total_participants |-> None]
    ELSE LET latest == latest_period(tbl, t)
             group == {i \in 1..Len(tbl) : /\ tbl[i].ranking_type = t
                                           /\ tbl[i].period = latest.period}
             ordered == order_by_rank(tbl, group)
         IN  IF limit < 0
             THEN [status |-> 500, rankings |-> <<>>, period |-> None,
                   total_participants |-> None]
             ELSE [status |-> 200,
                   rankings |-> SubSeq(ordered, 1,
                                       IF limit < Len(ordered) THEN limit ELSE Len(ordered)),
                   period |-> latest.period,
                   total_participants |-> latest.total_participants]

\* GET leaderboard?type=t&limit=limit
Leaderboard(t, limit) ==
    /\ calc' = [fn |-> "leaderboard", args |-> <<t, limit>>,
                out |-> leaderboard(rankings, t, limit)]
    /\ UNCHANGED <<baseVars, rankVars, awardVars, userStats, retry>>

DefaultLimit == 50

\* The engine and the readers of its table.
NextBoard ==
    \/ \E n \in 1..Len(RankUsers) : Participate(n, 70)
    \/ RunEngine(RankingType)
    \/ NextPeriod
    \/ \E t \in {RankingType, "weekly"}, limit \in {-1, 2, DefaultLimit} :
          Leaderboard(t, limit)

SpecBoard == Init /\ [][NextBoard]_vars

NextRank ==
    \/ \E n \in 1..Len(RankUsers), s \in ScoreValues : Participate(n, s)
    \/ RunEngine(RankingType)
    \/ NextPeriod

SpecRank == Init /\ [][NextRank]_vars

-----------------------------------------------------------------------------
(* UserRanking of models.py (one row per user, with points, level, rank     *)
(* and badges), as views_backup.py creates it, and the awards               *)

\* the field defaults: total_points 0, level 1, rank 0, badges []
DefaultUserRanking == [total_points |-> 0, level |-> 1, rank |-> 0, badges |-> <<>>]

\* the titles awarded for workout counts
BadgeNames == {"First Workout", "10 Workouts"}

\* `badge_name in self.badges`
has_badge(row, badge_name) ==
    \E i \in 1..Len(row.badges) : row.badges[i] = badge_name

add_badgeAlways(row, badge_name) == [row EXCEPT !.badges = Append(@, badge_name)]
\* UserRanking.add_badge, up to its save()
add_badge(row, badge_name) ==
    IF ~has_badge(row, badge_name)
    THEN [row EXCEPT !.badges = Append(@, badge_name)]
    ELSE row

update_levelOff(row) == row
\* UserRanking.update_level: every 1000 points = 1 level, never lowered
update_level(row) ==
    LET new_level == (row.total_points \div 1000) + 1
    IN  IF new_level > row.level THEN [row EXCEPT !.level = new_level] ELSE row

\* UserRanking.add_points, up to its save()
add_points(row, points) ==
    update_level([row EXCEPT !.total_points = @ + points])

\* awarding an Achievement: created once per (user, title)
award_achievement(tbl, u, title) ==
    IF \E i \in 1..Len(tbl) : tbl[i].user = u /\ tbl[i].title = title
    THEN tbl
    ELSE Append(tbl, [user |-> u, title |-> title])

\* the database after the first k of the four creations of views_backup's
\* register_user: User, UserProfile, UserRanking, Token
RegisterStepsBackup(db, req, k) ==
    LET u == req.username
        d1 == [db EXCEPT !.accounts.users =
                  @ \cup {[username |-> u, email |-> req.email]}]
        d2 == [d1 EXCEPT !.accounts.profiles = @ \cup {u}]
        d3 == [d2 EXCEPT !.userRanking[u] =
                  IF @ = NoRow THEN DefaultUserRanking ELSE @]
        d4 == [d3 EXCEPT !.accounts.tokens = @ \cup {u}]
    IN  CASE k = 0 -> db [] k = 1 -> d1 [] k = 2 -> d2 [] k = 3 -> d3 [] OTHER -> d4

\* POST register of views_backup.py
RegisterBackup(req, failAt) ==
    LET db == [accounts |-> accounts, userRanking |-> userRanking]
        out == IF ~registration_valid(accounts, req) THEN db
               ELSE IF failAt = 0 THEN RegisterStepsBackup(db, req, 4)
               ELSE atomic(db, RegisterStepsBackup(db, req, failAt - 1))
    IN  /\ accounts' = out.accounts
        /\ userRanking' = out.userRanking
        /\ regResp' = [ user |-> req.username, failAt |-> failAt,
                        status |-> IF ~registration_valid(accounts, req) THEN 400
                                   ELSE IF failAt = 0 THEN 201 ELSE 500 ]
        /\ resp' = Response("register", req.username, regResp'.status, FALSE)
        /\ UNCHANGED <<today, sessions, metrics, summaries, reqs, rankVars,
                       achievements, calc, userStats, retry>>

registered(u) == \E x \in accounts.users : x.username = u

\* GET rankings of views_backup.py: UserRanking.objects.get_or_create(user=...)
RankingGet(u) ==
    /\ registered(u)
    /\ userRanking' = [userRanking EXCEPT ![u] =
                          IF @ = NoRow THEN DefaultUserRanking ELSE @]
    /\ resp' = Response("ranking", u, 200, userRanking[u] = NoRow)
    /\ UNCHANGED <<today, sessions, metrics, summaries, reqs, accounts, regResp,
                   rankVars, achievements, calc, userStats, retry>>

\* a badge is awarded to the user's ranking row; did: the row did not hold it
AddBadge(u, badge_name) ==
    /\ userRanking[u] # NoRow
    /\ userRanking' = [userRanking EXCEPT ![u] = add_badge(@, badge_name)]
    /\ resp' = Response("badge", u, 200, ~has_badge(userRanking[u], badge_name))
    /\ UNCHANGED <<today, sessions, metrics, summaries, reqs, accounts, regResp,
                   rankVars, achievements, calc, userStats, retry>>

\* an achievement is awarded; did: the user did not hold the title
AwardAchievement(u, title) ==
    /\ registered(u)
    /\ achievements' = award_achievement(achievements, u, title)
    /\ resp' = Response("achievement", u, 200,
                        ~\E i \in 1..Len(achievements) :
                            achievements[i].user = u /\ achievements[i].title = title)
    /\ UNCHANGED <<today, sessions, metrics, summaries, reqs, accounts, regResp,
                   rankVars, userRanking, calc, userStats, retry>>

MaxPoints == 3000
PointValues == {0, 300, 1000, 1700}

\* ranking.add_points(points) on the user's row
AddPoints(u, points) ==
    /\ userRanking[u] # NoRow
    /\ userRanking[u].total_points + points <= MaxPoints
    /\ userRanking' = [userRanking EXCEPT ![u] = add_points(@, points)]
    /\ resp' = Response("points", u, 200, points > 0)
    /\ UNCHANGED <<today, sessions, metrics, summaries, reqs, accounts, regResp,
                   rankVars, achievements, calc, userStats, retry>>

\* Rows are created at their defaults and collect points.
NextPoints ==
    \/ \E u \in Users :
          RegisterBackup([username |-> u, email |-> u, password |-> PwTest,
                          password_confirm |-> PwTest], 0)
    \/ \E u \in Users : RankingGet(u)
    \/ \E u \in Users, points \in PointValues : AddPoints(u, points)

SpecPoints == Init /\ [][NextPoints]_vars

NextAward ==
    \/ \E u \in Users, failAt \in {0, 4} :
          RegisterBackup([username |-> u, email |-> u, password |-> PwTest,
                          password_confirm |-> PwTest], failAt)
    \/ \E u \in Users : RankingGet(u)
    \/ \E u \in Users, b \in BadgeNames : AddBadge(u, b)
    \/ \E u \in Users, b \in BadgeNames : AwardAchievement(u, b)

SpecAward == Init /\ [][NextAward]_vars

-----------------------------------------------------------------------------
(* The pure metric functions: fitness_grade, bmi, bmr.  `calc` records the  *)
(* last evaluation: the function, its arguments and its result.             *)

\* None where a float (a pair <<n, d>>) is expected
NoFloat == <<>>

RDiv(a, b) == Rat(a[1] * b[2], a[2] * b[1])

\* `if x`: None and 0 are falsy
truthy(x) == x # None /\ x # 0

round2Floor(r) == Rat((100 * r[1]) \div r[2], 100)
\* round(x, 2) of a non-negative x: the nearest hundredth, a tie to the even one
round2(r) ==
    LET q == (100 * r[1]) \div r[2]
        rem == (100 * r[1]) % r[2]
    IN  IF 2 * rem < r[2] THEN Rat(q, 100)
        ELSE IF 2 * rem > r[2] THEN Rat(q + 1, 100)
        ELSE IF q % 2 = 0 THEN Rat(q, 100)
        ELSE Rat(q + 1, 100)

\* User.bmi (PerformanceMetric.bmi is the same with the user's height)
bmi(weight, height) ==
    IF truthy(height) /\ truthy(weight)
    THEN LET height_m == Rat(height, 100)
         IN  round2(RDiv(RInt(weight), RMul(height_m, height_m)))
    ELSE NoFloat

bmrSameForAll(weight, height, age, gender) ==
    IF None \in {weight, height, age} THEN NoFloat
    ELSE RAdd(RInt(10 * weight - 5 * age + 5), RMul(Rat(625, 100), RInt(height)))
\* Mifflin-St Jeor: 10*weight + 6.25*height - 5*age + 5 for male, - 161 otherwise;
\* null if an input is missing
bmr(weight, height, age, gender) ==
    IF None \in {weight, height, age} THEN NoFloat
    ELSE LET base == RAdd(RInt(10 * weight - 5 * age),
                          RMul(Rat(625, 100), RInt(height)))
         IN  IF gender = "Male" THEN RAdd(base, RInt(5)) ELSE RAdd(base, RInt(-161))

fitness_gradeStrict(index) ==
    IF ~RLe(index, RInt(90)) THEN "A+"
    ELSE IF ~RLe(index, RInt(85)) THEN "A"
    ELSE IF ~RLe(index, RInt(80)) THEN "A-"
    ELSE IF ~RLe(index, RInt(75)) THEN "B+"
    ELSE IF ~RLe(index, RInt(70)) THEN "B"
    ELSE IF ~RLe(index, RInt(65)) THEN "B-"
    ELSE IF ~RLe(index, RInt(60)) THEN "C+"
    ELSE IF ~RLe(index, RInt(55)) THEN "C"
    ELSE IF ~RLe(index, RInt(50)) THEN "C-"
    ELSE "D"
\* stepped thresholds every 5 points from A+ (>= 90) down to D (< 50)
fitness_grade(index) ==
    IF RLe(RInt(90), index) THEN "A+"
    ELSE IF RLe(RInt(85), index) THEN "A"
    ELSE IF RLe(RInt(80), index) THEN "A-"
    ELSE IF RLe(RInt(75), index) THEN "B+"
    ELSE IF RLe(RInt(70), index) THEN "B"
    ELSE IF RLe(RInt(65), index) THEN "B-"
    ELSE IF RLe(RInt(60), index) THEN "C+"
    ELSE IF RLe(RInt(55), index) THEN "C"
    ELSE IF RLe(RInt(50), index) THEN "C-"
    ELSE "D"

\* indices 0.0 .. 100.0 in tenths: every 2.5 points and a tenth on either
\* side of every 5 points
IndexTenths == {i \in 0..1000 : i % 25 = 0 \/ i % 50 \in {1, 49}}

\* weights (kg) and heights (cm) the validators accept (20..500, 50..300), or None
WeightValues == {None, 20, 45, 70, 95, 120, 500}
HeightValues == {None, 50, 150, 160, 175, 190, 300}
AgeValues == {13, 30, 120}
GenderValues == {"Male", "Female", "Other"}

EvalGrade(i) ==
    /\ calc' = [fn |-> "fitness_grade", args |-> <<i>>, out |-> fitness_grade(Rat(i, 10))]
    /\ UNCHANGED <<baseVars, rankVars, awardVars, userStats, retry>>

EvalBmi(weight, height) ==
    /\ calc' = [fn |-> "bmi", args |-> <<weight, height>>, out |-> bmi(weight, height)]
    /\ UNCHANGED <<baseVars, rankVars, awardVars, userStats, retry>>

EvalBmr(weight, height, age, gender) ==
    /\ calc' = [fn |-> "bmr", args |-> <<weight, height, age, gender>>,
                out |-> bmr(weight, height, age, gender)]
    /\ UNCHANGED <<baseVars, rankVars, awardVars, userStats, retry>>

NextCalc ==
    \/ \E i \in IndexTenths : EvalGrade(i)
    \/ \E w \in WeightValues, h \in HeightValues : EvalBmi(w, h)
    \/ \E w \in {None, 45, 70, 95}, h \in {160, 175}, a \in AgeValues, g \in GenderValues :
          EvalBmr(w, h, a, g)

SpecCalc == Init /\ [][NextCalc]_vars

-----------------------------------------------------------------------------
(* db_retry (fitness_app/db_retry.py): the wrapper's for-loop, one          *)
(* iteration per step.  Exceptions and results carry the attempt that       *)
(* produced them.                                                           *)

MaxRetries == 3

\* what a call of the wrapped function does: it returns, or it raises
FuncOutcomes == {"ok", "OperationalError", "InterfaceError", "ConnectionError", "ValueError"}

retryableAll(e) == TRUE
\* except (OperationalError, InterfaceError, ConnectionError)
retryable(e) == e \in {"OperationalError", "InterfaceError", "ConnectionError"}

attemptsExtra(max_retries) == max_retries + 2
\* range(max_retries + 1)
attempts(max_retries) == max_retries + 1

backoff_factor == Rat(3, 2)

\* the first except clause: remember the exception; sleep and lengthen the
\* delay if an attempt is left; the loop goes on, or ends and last_exception
\* is raised
on_retryable(w, e) ==
    LET w1 == [w EXCEPT !.last_exception = <<e, w.attempt>>]
        w2 == IF w.attempt < w.max_retries
              THEN [w1 EXCEPT !.sleeps = @ + 1,
                              !.current_delay = RMul(@, backoff_factor)]
              ELSE w1
        w3 == [w2 EXCEPT !.attempt = @ + 1]
    IN  IF w3.attempt < attempts(w.max_retries) THEN w3
        ELSE [w3 EXCEPT !.pc = "raised", !.result = w3.last_exception]

\* one iteration of the loop: connection.close() raises or not, the
\* function is called with this outcome and leaves the connection open or not
iteration(w, close_raises, outcome, conn) ==
    IF w.connected /\ w.attempt > 0 /\ close_raises
    THEN on_retryable([w EXCEPT !.connected = FALSE], "InterfaceError")
    ELSE LET c == [w EXCEPT !.calls = @ + 1, !.connected = conn]
         IN  IF outcome = "ok"
             THEN [c EXCEPT !.pc = "returned", !.result = <<"value", w.attempt>>]
             ELSE IF retryable(outcome) THEN on_retryable(c, outcome)
             ELSE [c EXCEPT !.pc = "raised", !.result = <<outcome, w.attempt>>]

\* wrapper(*args, **kwargs) is entered
CallWrapped(n, delay) ==
    /\ retry.pc # "try"
    /\ retry' = [NotCalled EXCEPT !.pc = IF 0 < attempts(n) THEN "try" ELSE "raised",
                                  !.max_retries = n,
                                  !.current_delay = RInt(delay)]
    /\ UNCHANGED <<baseVars, rankVars, awardVars, calc, userStats>>

Loop ==
    /\ retry.pc = "try"
    /\ \E close_raises \in BOOLEAN, outcome \in FuncOutcomes, conn \in BOOLEAN :
          retry' = iteration(retry, close_raises, outcome, conn)
    /\ UNCHANGED <<baseVars, rankVars, awardVars, calc, userStats>>

NextRetry ==
    \/ \E n \in 0..MaxRetries, delay \in {1, 2} : CallWrapped(n, delay)
    \/ Loop

\* the loop is not abandoned between two iterations
SpecRetry == Init /\ [][NextRetry]_vars /\ WF_vars(Loop)

-----------------------------------------------------------------------------
(* Vocabulary of the properties                                            *)

\* the PerformanceMetrics row of (u, d) in table tbl; a row not yet created
\* reads as the field defaults
RowOf(tbl, u, d) ==
    IF MetricsLookup(tbl, u, d) = {} THEN DefaultMetrics(u, d)
    ELSE tbl[CHOOSE i \in MetricsLookup(tbl, u, d) : TRUE]

\* this step is a workout POST of user u that ran update_user_performance_metrics
UpdateCall(u) ==
    /\ Len(sessions') = Len(sessions) + 1
    /\ resp'.op = "workout" /\ resp'.status = 201 /\ resp'.user = u

\* the session that step created
NewSession == sessions'[Len(sessions')]

ScoreFields ==
    {"cardiovascular_score", "strength_score", "flexibility_score", "endurance_score"}

\* 100 times the weighted sum of a row's component scores
WeightedSum100(r) ==
    RAdd(RAdd(RMul(RInt(30), r.cardiovascular_score), RMul(RInt(25), r.strength_score)),
         RAdd(RMul(RInt(20), r.flexibility_score), RMul(RInt(25), r.endurance_score)))

IndexIsWeightedSum(r) == RMul(RInt(100), r.overall_fitness_index) = WeightedSum100(r)

\* the effect C1 describes, for a session of intensity High of type et
HighCardioEffect(u, et) ==
    (UpdateCall(u) /\ NewSession.exercise_type = et /\ NewSession.intensity = "High")
    => LET pre == RowOf(metrics, u, today)
           post == RowOf(metrics', u, today)
       IN  /\ post.cardiovascular_score =
                 RMin(RInt(100), RAdd(pre.cardiovascular_score, RInt(3)))
           /\ post.endurance_score =
                 RMin(RInt(100), RAdd(pre.endurance_score, Rat(9, 4)))
           /\ IndexIsWeightedSum(post)

-----------------------------------------------------------------------------
-----------------------------------------------------------------------------
-----------------------------------------------------------------------------
(* C3: an update_user_performance_metrics call never lowers any of the four *)
(* component scores and leaves each of them at most 100.                    *)
C3_ScoresMonotoneCapped ==
    [][ UpdateCall("u1") =>
          \A f \in ScoreFields :
             /\ RLe(RowOf(metrics, "u1", today)[f], RowOf(metrics', "u1", today)[f])
             /\ RLe(RowOf(metrics', "u1", today)[f], RInt(100)) ]_vars

\* a call hit the cap: endurance 98 (from a POST) plus 2.25 is stored as 100
C3_Witness ==
    /\ resp.op = "workout" /\ resp.status = 201
    /\ sessions[Len(sessions)].exercise_type = ET_Cardio
    /\ RowOf(metrics, "u1", today).endurance_score = RInt(100)

-----------------------------------------------------------------------------
(* C9: after an update_user_performance_metrics call the row's              *)
(* calorie_efficiency is total_calories_burned / total_workout_time when    *)
(* total_workout_time > 0 and 0 otherwise.                                  *)
C9_EfficiencyIsRatio ==
    [][ UpdateCall("u1") =>
          LET r == RowOf(metrics', "u1", today)
          IN  IF r.total_workout_time > 0
              THEN RMul(r.calorie_efficiency, RInt(r.total_workout_time))
                     = RInt(r.total_calories_burned)
              ELSE r.calorie_efficiency = RInt(0) ]_vars

\* two sessions of 250 kcal in 30 min: 500 / 60
C9_Witness ==
    /\ resp.op = "workout" /\ resp.status = 201
    /\ RowOf(metrics, "u1", today).total_workout_time = 60
    /\ RowOf(metrics, "u1", today).total_calories_burned = 500
    /\ RowOf(metrics, "u1", today).calorie_efficiency = Rat(25, 3)

-----------------------------------------------------------------------------
(* Vocabulary of the summary properties                                    *)

\* this step is a GET of user_summary_index by u that recalculated the summary
SummaryRecalc(u) ==
    /\ resp'.op = "summary" /\ resp'.user = u /\ resp'.did
    /\ today' = today /\ sessions' = sessions

SessionsOf(u) == Rows(sessions, u)

\* calories of u's sessions dated lo or later and before hi
CaloriesBetween(u, lo, hi) ==
    SumOver(sessions, {i \in SessionsOf(u) : sessions[i].date >= lo /\ sessions[i].date < hi},
            "calories_burned")

last_week_calories(u) == CaloriesBetween(u, today - 7, MaxDay + 2)
prev_week_calories(u) == CaloriesBetween(u, today - 14, today - 7)

TrendAsClaimed(u) ==
    IF prev_week_calories(u) > 0
    THEN Rat((last_week_calories(u) - prev_week_calories(u)) * 100, prev_week_calories(u))
    ELSE RInt(0)

-----------------------------------------------------------------------------
(* C7: after a summary recalculation improvement_trend is                   *)
(* (last_week_calories - prev_week_calories) / prev_week_calories * 100     *)
(* when prev_week_calories > 0 and 0 when it is 0, whatever it was before.  *)
C7_TrendRecomputed ==
    [][ SummaryRecalc("u1") =>
          summaries'["u1"].improvement_trend = TrendAsClaimed("u1") ]_vars

-----------------------------------------------------------------------------
(* C8: a summary recalculation recomputes everything: total_sessions and    *)
(* total_calories are the count and the calorie sum of all the user's       *)
(* sessions, performance_index and efficiency_score are those of the latest *)
(* PerformanceMetrics row, and no derived field (the weekly average, the    *)
(* trend) keeps a value computed from an earlier state of the records.      *)
C8_FullRecomputation ==
    [][ SummaryRecalc("u1") =>
          LET s == summaries'["u1"]
              latest == latest_metrics(metrics, "u1")
          IN  /\ s.total_sessions = Cardinality(SessionsOf("u1"))
              /\ s.total_calories = CaloriesBetween("u1", -1, MaxDay + 2)
              /\ latest # NoRow =>
                    /\ s.performance_index = latest.overall_fitness_index
                    /\ s.efficiency_score = latest.calorie_efficiency
              /\ s.weekly_average_calories =
                    Rat(CaloriesBetween("u1", today - 30, MaxDay + 2), 4)
              /\ s.improvement_trend = TrendAsClaimed("u1") ]_vars

-----------------------------------------------------------------------------
(* C10: after an update_user_performance_metrics call workout_frequency is  *)
(* the number of the user's own sessions in the trailing 7 days as of       *)
(* today.                                                                   *)
C10_FrequencyIsTrailingWeek ==
    [][ \A u \in Users :
          UpdateCall(u) =>
             RowOf(metrics', u, today).workout_frequency =
                Cardinality({i \in 1..Len(sessions') :
                                /\ sessions'[i].user = u
                                /\ sessions'[i].date >= today - 7
                                /\ sessions'[i].date <= today}) ]_vars

-----------------------------------------------------------------------------
(* Vocabulary of the interleaving properties                               *)

Quiescent == \A r \in 1..NReq : reqs[r].pc \in {"idle", "done"}

\* the served workout requests of user u that read day d as today
WorkoutsOf(u, d) ==
    {r \in 1..NReq : /\ reqs[r].pc = "done" /\ reqs[r].kind = "workout"
                     /\ reqs[r].user = u /\ reqs[r].day = d}

MetricsPostsOf(u, d) ==
    {r \in 1..NReq : /\ reqs[r].pc # "idle" /\ reqs[r].kind = "metrics"
                     /\ reqs[r].user = u /\ reqs[r].day = d}

RECURSIVE SumWs(_, _)
SumWs(rs, f) ==
    IF rs = {} THEN 0
    ELSE LET r == CHOOSE x \in rs : TRUE
         IN  reqs[r].ws[f] + SumWs(rs \ {r}, f)

-----------------------------------------------------------------------------
(* C4: whatever the interleaving of workout creations and metrics POSTs,    *)
(* the PerformanceMetrics table never holds two rows with the same          *)
(* (user, date).                                                            *)
C4_OneRowPerUserDay ==
    \A i, j \in 1..Len(metrics) :
        (metrics[i].user = metrics[j].user /\ metrics[i].date = metrics[j].date) => i = j

\* two requests of one user and day were served, both tried to insert the
\* row, the second INSERT was refused, and one row is there
C4_Witness ==
    /\ Quiescent
    /\ \A r \in 1..NReq : reqs[r].pc = "done" /\ reqs[r].user = "u1" /\ reqs[r].day = 0
    /\ \E r \in 1..NReq : reqs[r].raced
    /\ Cardinality(MetricsLookup(metrics, "u1", 0)) = 1

-----------------------------------------------------------------------------
(* C5: once the interleaved workout creations of a user and day have all    *)
(* been served (and no metrics POST for that day), the day's row holds the  *)
(* calories and the minutes of every one of those sessions.                 *)
C5_NoLostUpdate ==
    Quiescent =>
      \A u \in Users, d \in 0..MaxDay :
         (WorkoutsOf(u, d) # {} /\ MetricsPostsOf(u, d) = {}) =>
            /\ RowOf(metrics, u, d).total_calories_burned
                  = SumWs(WorkoutsOf(u, d), "calories_burned")
            /\ RowOf(metrics, u, d).total_workout_time
                  = SumWs(WorkoutsOf(u, d), "duration_minutes")

-----------------------------------------------------------------------------
(* C6: registration is all-or-nothing: for every username either the user,  *)
(* its profile, its summary row and its token all exist, or none of them    *)
(* does, also when one of the creations failed.                             *)
C6_RegistrationAllOrNothing ==
    \A u \in Users :
       LET hasUser == \E x \in accounts.users : x.username = u
       IN  /\ (u \in accounts.profiles) = hasUser
           /\ (summaries[u] # NoRow) = hasUser
           /\ (u \in accounts.tokens) = hasUser

\* the token creation of u1's registration failed after the user, the
\* profile and the summary had been written, and nothing of u1 is there,
\* while u2, registered before, is complete
C6_Witness ==
    /\ regResp = [user |-> "u1", failAt |-> 4, status |-> 500]
    /\ \A x \in accounts.users : x.username # "u1"
    /\ "u1" \notin accounts.profiles
    /\ summaries["u1"] = NoRow
    /\ \E x \in accounts.users : x.username = "u2"
    /\ "u2" \in accounts.tokens

-----------------------------------------------------------------------------
(* C11: the metric computations never raise on absent input: a workout     *)
(* creation whose session has no calories_burned is served without an       *)
(* error, and a summary recalculation for a user without sessions or        *)
(* without a PerformanceMetrics row completes with zero defaults.           *)
C11_NeverRaises ==
    /\ resp.op = "workout" => resp.status # 500
    /\ (resp.op = "summary" /\ resp.did /\ SessionsOf(resp.user) = {}) =>
          /\ summaries[resp.user].total_sessions = 0
          /\ summaries[resp.user].total_calories = 0
          /\ summaries[resp.user].weekly_average_calories = RInt(0)
    /\ (resp.op = "summary" /\ resp.did /\ latest_metrics(metrics, resp.user) = NoRow) =>
          /\ summaries[resp.user].performance_index = RInt(0)
          /\ summaries[resp.user].improvement_trend = RInt(0)

-----------------------------------------------------------------------------
(* Vocabulary of the ranking properties                                    *)

\* the UserRanking rows of one (ranking_type, period) group
GroupRows(t, p) ==
    {i \in 1..Len(rankings) : rankings[i].ranking_type = t /\ rankings[i].period = p}

\* this step is a run of the Ranking Engine for the current period
EngineRun ==
    /\ resp'.op = "rankings" /\ Len(scores) > 0
    /\ scores' = scores /\ period' = period

\* the user's row of period p in table tbl
RankingOf(tbl, u, p) ==
    tbl[CHOOSE i \in 1..Len(tbl) :
            /\ tbl[i].user = u /\ tbl[i].ranking_type = RankingType /\ tbl[i].period = p]

Ranked(tbl, u, p) ==
    \E i \in 1..Len(tbl) :
        /\ tbl[i].user = u /\ tbl[i].ranking_type = RankingType /\ tbl[i].period = p

NoDuplicateKeys(tbl, key) ==
    \A i, j \in 1..Len(tbl) : (\A f \in key : tbl[i][f] = tbl[j][f]) => i = j

PercentileFormula(r) ==
    /\ RMul(r.percentile, RInt(r.total_participants))
          = RInt((r.total_participants - r.rank) * 100)
    /\ RLe(RInt(0), r.percentile) /\ RLe(r.percentile, RInt(100))

-----------------------------------------------------------------------------
(* C12: within one (ranking_type, period) group of N ranked users the ranks *)
(* are exactly 1..N, one row per user, and a strictly higher score has a    *)
(* numerically lower rank; equal scores still get distinct ranks.           *)
C12_DenseRanks ==
    \A p \in 1..MaxPeriod :
       LET G == GroupRows(RankingType, p)
       IN  /\ {rankings[i].rank : i \in G} = 1..Cardinality(G)
           /\ \A i, j \in G : rankings[i].user = rankings[j].user => i = j
           /\ \A i, j \in G :
                 rankings[i].score > rankings[j].score => rankings[i].rank < rankings[j].rank

\* the scores 90, 70, 70, 50 of four users are ranked 1, 2, 3, 4
C12_Witness ==
    LET G == GroupRows(RankingType, 1)
    IN  /\ Cardinality(G) = 4
        /\ {<<rankings[i].rank, rankings[i].score>> : i \in G}
              = {<<1, 90>>, <<2, 70>>, <<3, 70>>, <<4, 50>>}

-----------------------------------------------------------------------------
(* C13 (as stated): every ranked row's percentile is                        *)
(* (total_participants - rank) / total_participants * 100, lies in 0..100,  *)
(* and the best-ranked user's percentile is 100.                            *)
C13_HundredIsBest ==
    \A i \in 1..Len(rankings) :
       /\ PercentileFormula(rankings[i])
       /\ rankings[i].rank = 1 => rankings[i].percentile = RInt(100)

(* C13 (amended): every ranked row's percentile is                          *)
(* (total_participants - rank) / total_participants * 100 and lies in       *)
(* 0..100; a better rank has a higher percentile, the best-ranked of N      *)
(* users has (N - 1) / N * 100, which is below 100, and the last has 0.     *)
C13_PercentileOfRank ==
    /\ \A i \in 1..Len(rankings) :
          /\ PercentileFormula(rankings[i])
          /\ rankings[i].rank = 1 =>
                /\ rankings[i].percentile # RInt(100)
                /\ \A j \in GroupRows(RankingType, rankings[i].period) :
                      RLe(rankings[j].percentile, rankings[i].percentile)
          /\ rankings[i].rank = rankings[i].total_participants =>
                rankings[i].percentile = RInt(0)
    /\ \A p \in 1..MaxPeriod : \A i, j \in GroupRows(RankingType, p) :
          rankings[i].rank < rankings[j].rank =>
             ~RLe(rankings[i].percentile, rankings[j].percentile)

\* the best of four ranked users has percentile (4 - 1) / 4 * 100 = 75
C13_Witness ==
    \E i \in 1..Len(rankings) :
       /\ rankings[i].rank = 1 /\ rankings[i].total_participants = 4
       /\ rankings[i].percentile = RInt(75)

-----------------------------------------------------------------------------
(* C14: when the rankings of a period are recomputed, every ranked user who  *)
(* also has a ranking in the immediately preceding period of the same type  *)
(* has one RankingHistory row of that date with rank_change =               *)
(* previous_rank - current_rank and score_change = current_score -           *)
(* previous_score; rank_change > 0 exactly when the user moved to a          *)
(* numerically lower rank, and exactly then the direction reads 'up'.        *)
C14_HistoryDeltas ==
    [][ EngineRun =>
          \A n \in 1..Len(scores) :
             LET u == scores[n].user
             IN  Ranked(rankings, u, period - 1) =>
                   LET prev == RankingOf(rankings, u, period - 1)
                       cur == RankingOf(rankings', u, period)
                       rows == {i \in 1..Len(history') :
                                   /\ history'[i].user = u
                                   /\ history'[i].ranking_type = RankingType
                                   /\ history'[i].date = today}
                   IN  /\ Cardinality(rows) = 1
                       /\ \A i \in rows :
                            /\ history'[i].rank_change = prev.rank - cur.rank
                            /\ history'[i].score_change = cur.score - prev.score
                            /\ (history'[i].rank_change > 0) = (cur.rank < prev.rank)
                            /\ (get_rank_change_direction(history'[i]) = "up")
                                  = (cur.rank < prev.rank) ]_vars

\* a user ranked 2nd in the preceding period is now 1st: rank_change 1, 'up'
C14_Witness ==
    /\ resp.op = "rankings"
    /\ \E i \in 1..Len(history) :
          /\ history[i].previous_rank = 2 /\ history[i].current_rank = 1
          /\ history[i].rank_change = 1
          /\ history[i].score_change = 20
          /\ get_rank_change_direction(history[i]) = "up"

-----------------------------------------------------------------------------
(* C15 (as stated): a second run of the Ranking Engine on unchanged scores  *)
(* leaves every rank and percentile as it was, creates no duplicate          *)
(* UserRanking or RankingHistory row, and the RankingHistory deltas          *)
(* (rank_change, score_change) of the second run are zero.                   *)
C15_SecondRunZeroDeltas ==
    [][ (EngineRun /\ resp'.did) =>
          /\ rankings' = rankings
          /\ NoDuplicateKeys(rankings', RankingKey)
          /\ NoDuplicateKeys(history', HistoryKey)
          /\ \A i \in 1..Len(history') :
                history'[i].date = today =>
                   history'[i].rank_change = 0 /\ history'[i].score_change = 0 ]_vars

(* C15 (amended): a second run of the Ranking Engine on unchanged scores    *)
(* leaves every UserRanking row (rank, percentile) and every RankingHistory *)
(* row as the first run wrote it and creates no duplicate row; the deltas   *)
(* are again those against the preceding period, zero only for a user whose *)
(* rank and score did not change between the periods.                       *)
C15_SecondRunSameRows ==
    [][ (EngineRun /\ resp'.did) =>
          /\ rankings' = rankings
          /\ history' = history
          /\ NoDuplicateKeys(rankings', RankingKey)
          /\ NoDuplicateKeys(history', HistoryKey)
          /\ \A i \in 1..Len(history') :
                /\ (history'[i].rank_change = 0)
                      = (history'[i].current_rank = history'[i].previous_rank)
                /\ (history'[i].score_change = 0)
                      = (history'[i].current_score = history'[i].previous_score) ]_vars

\* the engine has run twice on the same scores and a user's rank_change
\* against the preceding period is still 1
C15_Witness ==
    /\ resp.op = "rankings" /\ resp.did
    /\ \E i \in 1..Len(history) :
          history[i].date = today /\ history[i].rank_change = 1

-----------------------------------------------------------------------------
-----------------------------------------------------------------------------
(* C17: awarding is idempotent: after any sequence of awards a user holds   *)
(* each badge name and each achievement title at most once, and awarding a  *)
(* title the user already holds changes nothing.                            *)
C17_AwardIdempotent ==
    [][ /\ \A u \in Users : userRanking'[u] # NoRow =>
              \A i, j \in 1..Len(userRanking'[u].badges) :
                 userRanking'[u].badges[i] = userRanking'[u].badges[j] => i = j
        /\ \A i, j \in 1..Len(achievements') :
              achievements'[i] = achievements'[j] => i = j
        /\ (resp'.op \in {"badge", "achievement"} /\ ~resp'.did) =>
              /\ userRanking' = userRanking
              /\ achievements' = achievements ]_vars

\* u1 holds both badges and one achievement, and the last award, of a badge
\* u1 already held, was refused
C17_Witness ==
    /\ resp = Response("badge", "u1", 200, FALSE)
    /\ userRanking["u1"] # NoRow
    /\ Len(userRanking["u1"].badges) = 2
    /\ \E i \in 1..Len(achievements) : achievements[i].user = "u1"

-----------------------------------------------------------------------------
(* Vocabulary of the properties of the metric functions                    *)

\* the letter bands, best first, and the lower bound of each but the last
GradeLetters == <<"A+", "A", "A-", "B+", "B", "B-", "C+", "C", "C-", "D">>
Breakpoints == <<90, 85, 80, 75, 70, 65, 60, 55, 50>>

GradePosition(g) == CHOOSE k \in 1..Len(GradeLetters) : GradeLetters[k] = g

\* the band of an index given in tenths: the first breakpoint it reaches
BandOf(i) ==
    IF \E k \in 1..Len(Breakpoints) : i >= 10 * Breakpoints[k]
    THEN GradeLetters[CHOOSE k \in 1..Len(Breakpoints) :
                         /\ i >= 10 * Breakpoints[k]
                         /\ \A m \in 1..(k - 1) : i < 10 * Breakpoints[m]]
    ELSE "D"

\* the bands fitness_grade maps the indices 0.0 .. 100.0 to
BandsReached == {fitness_grade(Rat(i, 10)) : i \in IndexTenths}

\* what C18 says of one evaluation and of two evaluations in a row
GradeBoundaries ==
    calc'.fn = "fitness_grade" =>
       /\ calc'.out = BandOf(calc'.args[1])
       /\ calc'.args[1] = 900 => calc'.out = "A+"
       /\ calc'.args[1] = 899 => calc'.out = "A"
       /\ calc'.args[1] < 500 => calc'.out = "D"
       /\ (calc.fn = "fitness_grade" /\ calc.args[1] <= calc'.args[1]) =>
             GradePosition(calc'.out) <= GradePosition(calc.out)

-----------------------------------------------------------------------------
(* C18 (as stated): fitness_grade maps an index to one of eleven letter     *)
(* bands using the breakpoints 90, 85, ..., 50 with inclusive lower bounds: *)
(* 90 gives 'A+', 89.9 gives 'A', an index below 50 gives 'D', and a higher *)
(* index never gets a lower grade.                                          *)
C18_ElevenBands ==
    [][ GradeBoundaries /\ Cardinality(BandsReached) = 11 ]_vars

(* C18 (amended): the same with ten letter bands: the nine breakpoints      *)
(* 90, 85, ..., 50 separate ten bands, A+ down to D.                        *)
C18_TenBands ==
    [][ GradeBoundaries /\ Cardinality(BandsReached) = 10 ]_vars

\* 89.9 was graded 'A'
C18_Witness ==
    calc = [fn |-> "fitness_grade", args |-> <<899>>, out |-> "A"]

-----------------------------------------------------------------------------
(* C19: bmi is weight / (height/100)^2 rounded to 2 decimals whenever       *)
(* weight and height are both present (22.86 for 70 kg and 175 cm) and is   *)
(* null exactly when weight or height is missing.                           *)
C19_BmiRounded ==
    calc.fn = "bmi" =>
       LET w == calc.args[1]
           h == calc.args[2]
       IN  IF w # None /\ h # None
           THEN /\ calc.out # NoFloat
                /\ 100 % calc.out[2] = 0
                   \* |out - w / (h/100)^2| <= 0.005, in units of 1 / (100 h^2)
                /\ 2 * Abs(calc.out[1] * (100 \div calc.out[2]) * h * h - w * 1000000)
                      <= h * h
                /\ (w = 70 /\ h = 175) => calc.out = Rat(2286, 100)
           ELSE calc.out = NoFloat

\* bmi of 70 kg and 175 cm was evaluated: 22.86
C19_Witness ==
    calc = [fn |-> "bmi", args |-> <<70, 175>>, out |-> Rat(2286, 100)]

-----------------------------------------------------------------------------
(* Four times the Mifflin-St Jeor value of an evaluation, in integers       *)
BmrFormula ==
    (calc.fn = "bmr" /\ None \notin {calc.args[1], calc.args[2], calc.args[3]}) =>
       LET w == calc.args[1]
           h == calc.args[2]
           a == calc.args[3]
       IN  RMul(RInt(4), calc.out) =
              RInt(40 * w + 25 * h - 20 * a
                     + (IF calc.args[4] = "Male" THEN 20 ELSE -644))

(* C20 (as stated): compute_bmr is 10*weight + 6.25*height - 5*age + 5 for  *)
(* male and ... - 161 otherwise, and for weight 70, height 175, age 30 it   *)
(* yields 1678.75 for 'Male' and 1512.75 for the female/other branch.       *)
C20_BmrValuesAsStated ==
    /\ BmrFormula
    /\ calc.fn = "bmr" /\ calc.args = <<70, 175, 30, "Male">> =>
          calc.out = Rat(167875, 100)
    /\ (calc.fn = "bmr" /\ calc.args[1] = 70 /\ calc.args[2] = 175 /\ calc.args[3] = 30
           /\ calc.args[4] # "Male") => calc.out = Rat(151275, 100)

(* C20 (amended): the same formula; for weight 70, height 175, age 30 it    *)
(* yields 1648.75 for 'Male' and 1482.75 for the female/other branch.       *)
C20_BmrValues ==
    /\ BmrFormula
    /\ calc.fn = "bmr" /\ calc.args = <<70, 175, 30, "Male">> =>
          calc.out = Rat(164875, 100)
    /\ (calc.fn = "bmr" /\ calc.args[1] = 70 /\ calc.args[2] = 175 /\ calc.args[3] = 30
           /\ calc.args[4] # "Male") => calc.out = Rat(148275, 100)

\* bmr of 70 kg, 175 cm, 30 years, 'Other' was evaluated: 1482.75
C20_Witness ==
    calc = [fn |-> "bmr", args |-> <<70, 175, 30, "Other">>, out |-> Rat(148275, 100)]

-----------------------------------------------------------------------------
(* Vocabulary of the registration contract                                 *)

\* the registration requests of SpecReg
RegRequests ==
    [ username : Users,
      email : {"a@example.com", "b@example.com", "c@example.com"},
      password : {PwTest, PwShort},
      password_confirm : {PwTest, PwOther, PwShort} ]

\* username and email of the request are not yet in use
NotInUse(req) ==
    \A x \in accounts.users : x.username # req.username /\ x.email # req.email

\* this step served the request, and no creation raised
Registers(req) == Register(req, 0)

Registered201(req) ==
    /\ regResp'.status = 201
    /\ \E x \in accounts'.users : x.username = req.username

Rejected400(req) ==
    /\ regResp'.status = 400
    /\ accounts' = accounts
    /\ summaries' = summaries

(* C21 (as stated): registering with a username and email not yet in use    *)
(* and with password equal to password_confirm returns 201 and afterwards a *)
(* user with that username exists; when password and password_confirm       *)
(* differ the request is rejected with 400 and no user, profile, summary    *)
(* row or token is created.                                                 *)
C21_RegisterContractAsStated ==
    [][ \A req \in RegRequests :
          Registers(req) =>
             /\ (NotInUse(req) /\ req.password = req.password_confirm)
                   => Registered201(req)
             /\ req.password # req.password_confirm => Rejected400(req) ]_vars

(* C21 (amended): registering with a username and email not yet in use and  *)
(* with a password that passes the password validators and equals           *)
(* password_confirm returns 201 and afterwards a user with that username    *)
(* exists; when password and password_confirm differ, or the password fails *)
(* the validators, the request is rejected with 400 and no user, profile,   *)
(* summary row or token is created.                                         *)
C21_RegisterContract ==
    [][ \A req \in RegRequests :
          Registers(req) =>
             /\ (NotInUse(req) /\ validate_password(req.password)
                    /\ req.password = req.password_confirm)
                   => Registered201(req)
             /\ (req.password # req.password_confirm
                    \/ ~validate_password(req.password)) => Rejected400(req) ]_vars

\* u2's registration was rejected and wrote nothing, after u1 had registered
C21_Witness ==
    /\ regResp = [user |-> "u2", failAt |-> 0, status |-> 400]
    /\ \E x \in accounts.users : x.username = "u1"
    /\ \A x \in accounts.users : x.username # "u2"
    /\ "u2" \notin accounts.profiles /\ "u2" \notin accounts.tokens
    /\ summaries["u2"] = NoRow

-----------------------------------------------------------------------------
(* Vocabulary of the workout_sessions contract                             *)

\* duration and calories within the limits of the input boundary
InRange(dur, cal) ==
    /\ dur >= 1 /\ dur <= 480
    /\ cal >= 1 /\ cal <= 2000

\* this step served the POST of user u with these fields
Posts(u, et, dur, cal, inten) == WorkoutPost(u, et, dur, cal, inten, today)

(* C22: for an authenticated user and an existing exercise type, a POST to  *)
(* workout_sessions with a valid duration, calories and intensity returns   *)
(* 201, persists exactly one new WorkoutSession owned by the requesting     *)
(* user, and has updated that user's PerformanceMetrics row for today when  *)
(* the response is returned.                                                *)
C22_PostCreatesAndUpdates ==
    [][ \A u \in Users, dur \in DurationValues, cal \in CaloriesValues,
           inten \in Intensities :
          (Posts(u, ET_Cardio, dur, cal, inten) /\ InRange(dur, cal)) =>
             /\ resp' = Response("workout", u, 201, FALSE)
             /\ Len(sessions') = Len(sessions) + 1
             /\ SubSeq(sessions', 1, Len(sessions)) = sessions
             /\ NewSession.user = u
             /\ NewSession.duration_minutes = dur
             /\ NewSession.calories_burned = cal
             /\ MetricsLookup(metrics', u, today) # {}
             /\ RowOf(metrics', u, today).total_workout_time =
                   RowOf(metrics, u, today).total_workout_time + dur
             /\ RowOf(metrics', u, today).total_calories_burned =
                   RowOf(metrics, u, today).total_calories_burned + cal
             /\ RowOf(metrics', u, today).workout_frequency =
                   Cardinality({i \in 1..Len(sessions') : sessions'[i].user = u}) ]_vars

\* u2's POST was answered 201, its session is the newest and its row of
\* today holds the session's duration on top of an earlier one
C22_Witness ==
    /\ resp = Response("workout", "u2", 201, FALSE)
    /\ Len(sessions) >= 2
    /\ sessions[Len(sessions)].user = "u2"
    /\ sessions[Len(sessions)].duration_minutes = 480
    /\ RowOf(metrics, "u2", today).total_workout_time = 481

(* C28: a workout-session POST whose duration_minutes is below 1 or above   *)
(* 480, or whose calories_burned is below 1 or above 2000, is rejected with *)
(* 400, persists no WorkoutSession and leaves the PerformanceMetrics        *)
(* unchanged.                                                               *)
C28_OutOfRangeRejected ==
    [][ \A u \in Users, dur \in DurationValues, cal \in CaloriesValues,
           inten \in Intensities :
          (Posts(u, ET_Cardio, dur, cal, inten) /\ ~InRange(dur, cal)) =>
             /\ resp' = Response("workout", u, 400, FALSE)
             /\ sessions' = sessions
             /\ metrics' = metrics ]_vars

\* u2's POST was rejected after u1 had stored a session
C28_Witness ==
    /\ resp = Response("workout", "u2", 400, FALSE)
    /\ Len(sessions) = 1
    /\ sessions[1].user = "u1"
    /\ MetricsLookup(metrics, "u2", today) = {}

-----------------------------------------------------------------------------
(* Vocabulary of the db_retry contract                                     *)

Finished == retry.pc \in {"returned", "raised"}

\* this step called the wrapped function, as attempt number retry.attempt
CallsFunc == retry.pc = "try" /\ retry'.calls = retry.calls + 1

(* C23: a function wrapped by db_retry(max_retries=n) is invoked at most    *)
(* n+1 times and the wrapper always terminates: it returns the result of    *)
(* the first attempt that succeeds without making further attempts, and if  *)
(* all n+1 attempts raise a retryable error it raises the exception of the  *)
(* last attempt.                                                            *)
C23_BoundedRetries ==
    /\ [](retry.calls <= retry.max_retries + 1)
    /\ [][ /\ (CallsFunc /\ retry'.pc = "returned") =>
                retry'.result = <<"value", retry.attempt>>
           /\ (retry.pc = "returned" /\ retry'.pc # "try") => retry' = retry
           /\ (retry.pc = "try" /\ retry'.pc = "raised"
                  /\ retry'.attempt = retry.max_retries + 1) =>
                /\ retry'.result[2] = retry.max_retries
                /\ retryable(retry'.result[1])
                /\ retry'.result = retry'.last_exception ]_vars
    /\ (retry.pc = "try") ~> Finished

\* after three failed attempts and three sleeps the fourth attempt of a
\* wrapper with max_retries = 3 returned
C23_Witness ==
    /\ retry.pc = "returned"
    /\ retry.max_retries = 3
    /\ retry.calls = 4
    /\ retry.sleeps = 3
    /\ retry.result = <<"value", 3>>

(* C25: when the wrapped function raises an exception that is not           *)
(* OperationalError, InterfaceError or ConnectionError, the wrapper         *)
(* re-raises that exception immediately: no further attempt is made and no  *)
(* sleep occurs, whatever the attempt number.                               *)
C25_NonRetryableRaisedAtOnce ==
    [][ /\ \A outcome \in FuncOutcomes \ {"ok", "OperationalError", "InterfaceError",
                                          "ConnectionError"} :
              \A conn \in BOOLEAN :
                 (retry.pc = "try" /\ retry' = iteration(retry, FALSE, outcome, conn)) =>
                    /\ retry'.pc = "raised"
                    /\ retry'.result = <<outcome, retry.attempt>>
                    /\ retry'.sleeps = retry.sleeps
                    /\ retry'.calls = retry.calls + 1
        /\ (retry.pc = "raised" /\ retry'.pc # "try") => retry' = retry ]_vars

\* the third attempt raised ValueError after two retried failures
C25_Witness ==
    /\ retry.pc = "raised"
    /\ retry.result = <<"ValueError", 2>>
    /\ retry.calls = 3
    /\ retry.sleeps = 2
    /\ retry.max_retries = 3

-----------------------------------------------------------------------------
(* Vocabulary of the component-score frame                                 *)

\* m: 0.5 / 1.0 / 1.5 for Low / Medium / High, 1.0 for any other intensity
MultiplierOf(inten) ==
    IF inten = "Low" THEN Rat(1, 2)
    ELSE IF inten = "High" THEN Rat(3, 2)
    ELSE RInt(1)

NameOf(ws) == lower(ExerciseTypes[ws.exercise_type])

\* the increments of the four scores, as multiples of m
Increments(c, s, f, e) ==
    [cardiovascular_score |-> c, strength_score |-> s,
     flexibility_score |-> f, endurance_score |-> e]

NoIncrement == Increments(RInt(0), RInt(0), RInt(0), RInt(0))
CardioIncrement == Increments(RInt(2), RInt(0), RInt(0), Rat(3, 2))
StrengthIncrement == Increments(RInt(0), RInt(2), RInt(0), RInt(0))
YogaIncrement == Increments(RInt(0), RInt(0), RInt(2), RInt(0))

\* this step's update added inc * m to each score of u1's row, with or
\* without the cap at 100
ScoresMoved(inc, capped) ==
    \A f \in ScoreFields :
       LET pre == RowOf(metrics, "u1", today)[f]
           sum == RAdd(pre, RMul(inc[f], MultiplierOf(NewSession.intensity)))
       IN  RowOf(metrics', "u1", today)[f] =
              IF capped THEN RMin(RInt(100), sum) ELSE sum

(* C24 (as stated): update_user_performance_metrics changes only the        *)
(* component scores selected by the exercise type name: a name containing   *)
(* 'cardio' changes cardiovascular (+2*m) and endurance (+1.5*m) only,      *)
(* 'strength' changes strength (+2*m) only, 'yoga' changes flexibility      *)
(* (+2*m) only, where m is 0.5/1.0/1.5 for Low/Medium/High (1.0 for any     *)
(* other intensity); a name matching no keyword leaves all four unchanged.  *)
C24_SelectedScoresAsStated ==
    [][ UpdateCall("u1") =>
          /\ Contains(kw_cardio, NameOf(NewSession)) => ScoresMoved(CardioIncrement, FALSE)
          /\ Contains(kw_strength, NameOf(NewSession)) =>
                ScoresMoved(StrengthIncrement, FALSE)
          /\ Contains(kw_yoga, NameOf(NewSession)) => ScoresMoved(YogaIncrement, FALSE)
          /\ (~Contains(kw_cardio, NameOf(NewSession))
                 /\ ~Contains(kw_strength, NameOf(NewSession))
                 /\ ~Contains(kw_yoga, NameOf(NewSession))) =>
                ScoresMoved(NoIncrement, FALSE) ]_vars

(* C24 (amended): the first keyword of 'cardio', 'strength', 'yoga', in     *)
(* this order, that the lower-cased name contains selects the scores:       *)
(* 'cardio' changes cardiovascular (+2*m) and endurance (+1.5*m) only,      *)
(* otherwise 'strength' changes strength (+2*m) only, otherwise 'yoga'      *)
(* changes flexibility (+2*m) only, each new score capped at 100; m as      *)
(* stated; a name matching no keyword leaves all four unchanged.            *)
C24_SelectedScores ==
    [][ UpdateCall("u1") =>
          LET name == NameOf(NewSession)
          IN  IF Contains(kw_cardio, name) THEN ScoresMoved(CardioIncrement, TRUE)
              ELSE IF Contains(kw_strength, name) THEN ScoresMoved(StrengthIncrement, TRUE)
              ELSE IF Contains(kw_yoga, name) THEN ScoresMoved(YogaIncrement, TRUE)
              ELSE ScoresMoved(NoIncrement, TRUE) ]_vars

\* a 'Moderate' session of "Cardio Yoga" moved cardiovascular from 99 to the
\* cap and endurance by 1.5, and left flexibility at 99
C24_Witness ==
    /\ resp = Response("workout", "u1", 201, FALSE)
    /\ Len(sessions) = 1
    /\ sessions[1].exercise_type = ET_CardioYoga
    /\ sessions[1].intensity = "Moderate"
    /\ RowOf(metrics, "u1", today).cardiovascular_score = RInt(100)
    /\ RowOf(metrics, "u1", today).endurance_score = Rat(3, 2)
    /\ RowOf(metrics, "u1", today).flexibility_score = RInt(99)
    /\ RowOf(metrics, "u1", today).strength_score = RInt(0)

-----------------------------------------------------------------------------
(* C26: a GET of user_summary_index recalculates the summary only when the  *)
(* summary row was just created or the request carries refresh=true; any    *)
(* other GET returns the stored summary and leaves every summary field      *)
(* unchanged, even if workout sessions were created since.                  *)
C26_RecalculateOnlyOnRefresh ==
    [][ \A u \in Users :
          (SummaryGet(u, FALSE) /\ summaries[u] # NoRow) =>
             /\ summaries' = summaries
             /\ resp' = Response("summary", u, 200, FALSE) ]_vars

\* a GET without refresh was served while the stored summary of u1 counts
\* fewer sessions than u1 has
C26_Witness ==
    /\ resp = Response("summary", "u1", 200, FALSE)
    /\ summaries["u1"] # NoRow
    /\ summaries["u1"].total_sessions < Cardinality(Rows(sessions, "u1"))

-----------------------------------------------------------------------------
(* Vocabulary of the leaderboard                                           *)

Board == calc.out.rankings

\* the periods for which type t has rankings
PeriodsOf(t) == {rankings[i].period : i \in {j \in 1..Len(rankings) :
                                               rankings[j].ranking_type = t}}

\* the response out shows the first rows, by rank, of t's latest period
ShowsLatest(out, t, limit) ==
    LET rows == {rankings[i] : i \in {j \in GroupRows(t, out.period) :
                                        rankings[j].rank <= limit}}
    IN  /\ \A p \in PeriodsOf(t) : p <= out.period
        /\ out.period \in PeriodsOf(t)
        /\ \A k \in 1..Len(out.rankings) :
              /\ out.rankings[k].ranking_type = t
              /\ out.rankings[k].period = out.period
        /\ \A k \in 1..(Len(out.rankings) - 1) :
              out.rankings[k].rank < out.rankings[k + 1].rank
        /\ {out.rankings[k] : k \in 1..Len(out.rankings)} = rows
        /\ Len(out.rankings) = Cardinality(rows)

(* C27: leaderboard for a ranking type returns only rows of a single        *)
(* period, the one with the greatest period_end among that type's rankings, *)
(* ordered by ascending rank and truncated to the requested limit; when the *)
(* type has no rankings it returns an empty list instead of an error.       *)
C27_LeaderboardLatestPeriod ==
    [][ \A t \in {RankingType, "weekly"}, limit \in {2, DefaultLimit} :
          Leaderboard(t, limit) =>
             /\ calc'.out.status = 200
             /\ IF PeriodsOf(t) = {} THEN calc'.out.rankings = <<>>
                ELSE ShowsLatest(calc'.out, t, limit) ]_vars

\* two rows of the second period are shown while the first period has rows too
C27_Witness ==
    /\ calc.fn = "leaderboard"
    /\ calc.args = <<"overall", 2>>
    /\ Len(Board) = 2
    /\ calc.out.period = 2
    /\ Board[1].rank = 1 /\ Board[2].rank = 2
    /\ Cardinality(GroupRows("overall", 2)) > 2
    /\ GroupRows("overall", 1) # {}

-----------------------------------------------------------------------------
(* C29: after every WorkoutSession.save, the owning user's total_workouts   *)
(* equals the number of that user's workout sessions and                    *)
(* total_calories_burned equals the sum of their calories_burned; saving a  *)
(* session never changes another user's totals.                             *)
C29_TotalsFollowSaves ==
    [][ Len(sessions') = Len(sessions) + 1 =>
          LET u == NewSession.user
          IN  /\ userStats'[u].total_workouts = Cardinality(Rows(sessions', u))
              /\ userStats'[u].total_calories_burned =
                    SumOver(sessions', Rows(sessions', u), "calories_burned")
              /\ \A v \in Users \ {u} : userStats'[v] = userStats[v] ]_vars

-----------------------------------------------------------------------------
(* C30: for a UserRanking starting at its defaults (total_points 0, level   *)
(* 1), after any sequence of add_points calls with non-negative points the  *)
(* level equals total_points // 1000 + 1, total_points equals the sum of    *)
(* all points added, and the level never decreases.                         *)
C30_LevelFollowsPoints ==
    /\ [](\A u \in Users :
            userRanking[u] # NoRow =>
               userRanking[u].level = (userRanking[u].total_points \div 1000) + 1)
    /\ [][ \A u \in Users, points \in PointValues :
             AddPoints(u, points) =>
                /\ userRanking'[u].total_points = userRanking[u].total_points + points
                /\ userRanking'[u].level >= userRanking[u].level ]_vars
    /\ [][ \A u \in Users :
             (userRanking[u] = NoRow /\ userRanking'[u] # NoRow) =>
                (userRanking'[u].total_points = 0 /\ userRanking'[u].level = 1) ]_vars

\* u1 collected 2700 points in several calls and is at level 3
C30_Witness ==
    /\ userRanking["u1"] # NoRow
    /\ userRanking["u1"].total_points = 2700
    /\ userRanking["u1"].level = 3
    /\ resp = Response("points", "u1", 200, TRUE)

=============================================================================
